---- MODULE Spec2Model ----
(***************************************************************************)
(* Model of the AI-generation pipeline and the mock-interview state        *)
(* machine of server.js: the resume / cover-letter upsert handlers, the    *)
(* interview start / respond / end handlers, the fenced-JSON extractor     *)
(* they share, and the JSON files they read and rewrite.                   *)
(*                                                                         *)
(* A handler that awaits the model is two steps: the synchronous part up   *)
(* to the await (XxxBegin), and the part that runs when the call returns   *)
(* (XxxFinish) or throws (ModelThrows).  Node runs each part without       *)
(* interruption, and any number of requests may be suspended at once.      *)
(* File reads and writes are taken to succeed and to be atomic.            *)
(***************************************************************************)
EXTENDS Integers, Sequences, FiniteSets, TLC

VARIABLES
    jobs,           \* jobs.json: the ids of the job records, in file order
    nextJob,        \* number of job records created so far (their uuids)
    resumes,        \* resumes.json
    coverLetters,   \* cover-letters.json
    interviews,     \* mock-interviews.json
    templates,      \* document-templates.json
    uploads,        \* number of templates uploaded so far
    generated,      \* files of data/generated (by the uuid in their name)
    inflight,       \* the requests suspended at their model call
    accepted,       \* number of requests accepted so far
    last,           \* the request answered last, with its response
    now,            \* the clock read by new Date()
    nextId,         \* number of uuids drawn so far for artifacts and sessions
    arg,            \* the input of the function a function-level run applies
    ret             \* what the function returned for arg, in call order

vars == <<jobs, nextJob, resumes, coverLetters, interviews, templates,
          uploads, generated, inflight, accepted, last, now, nextId,
          arg, ret>>

-----------------------------------------------------------------------------
(* Bounds of the model *)

MaxReqs == 2        \* generation requests accepted in a run
MaxJobs == 2        \* job records created in a run
MaxUploads == 1     \* templates uploaded in a run
MaxTurns == 4       \* interview requests accepted in a run
MaxInFlight == 2    \* interview requests suspended at the same time
MaxAccepted == 2    \* requests of any kind accepted in a run of Spec

-----------------------------------------------------------------------------
(* Values *)

\* JavaScript's undefined, for a string-valued property
Undefined == "undefined"

\* A request that names no job (req.body.jobId missing)
NoJob == ""

\* the uuid of the n-th job record
JobUuid(n) == IF n = 1 THEN "j1" ELSE IF n = 2 THEN "j2" ELSE "j3"

\* job ids a caller may send: those of created jobs, and one of no job
JobArgs == {"j1", "j2", "j9"}

\* Answers a caller may send, by name, with the characters of each
AnswerText ==
    [ empty  |-> <<>>,
      blank  |-> <<" ", " ">>,
      a1     |-> <<"a">>,
      a2     |-> <<" ", "b", " ">> ]

\* req.body.answer: {} when the property is missing
AnswerArgs == {{}} \cup {{a} : a \in DOMAIN AnswerText}

\* Raw model output is a sequence of tokens: the fence (three backticks),
\* the tag json, white space, prose, and JSON values named by JsonOf.
Fence == "fence"
JsonTag == "json"
Ws == " "
Prose == "x"

\* The value JSON.parse returns for a token that is one whole JSON value.
\* t is the JavaScript type; o holds the own properties of an object.
JsonOf ==
    [ oRes    |-> [t |-> "object", o |-> [resume |-> "R1"]],
      oResJob |-> [t |-> "object", o |-> [resume |-> "R1", jobId |-> "j1"]],
      oResId  |-> [t |-> "object", o |-> [resume |-> "R1", id |-> 0]],
      oResDoc |-> [t |-> "object", o |-> [resume |-> "R1", docxPath |-> 9]],
      oCl     |-> [t |-> "object", o |-> [coverLetter |-> "L1"]],
      oClJob  |-> [t |-> "object", o |-> [coverLetter |-> "L1", jobId |-> "j1"]],
      oClId   |-> [t |-> "object", o |-> [coverLetter |-> "L1", id |-> 0]],
      oClDoc  |-> [t |-> "object", o |-> [coverLetter |-> "L1", docxPath |-> 9]],
      oQ      |-> [t |-> "object",
                   o |-> [question |-> "Q1", questionType |-> "behavioral",
                          tip |-> "T1", feedback |-> "F1"]],
      oFb     |-> [t |-> "object", o |-> [overallScore |-> 7, summary |-> "S1"]],
      null    |-> [t |-> "null", o |-> <<>>],
      num     |-> [t |-> "number", o |-> <<>>] ]

JsonTokens == DOMAIN JsonOf

-----------------------------------------------------------------------------
(* The extractor: result.match(fenced-block pattern) || [null, result],    *)
(* then JSON.parse(jsonMatch[1].trim())                                    *)

\* String.prototype.trim on a token sequence
RECURSIVE TrimLeft(_)
TrimLeft(s) == IF s # <<>> /\ Head(s) = Ws THEN TrimLeft(Tail(s)) ELSE s

RECURSIVE TrimRight(_)
TrimRight(s) ==
    IF s # <<>> /\ s[Len(s)] = Ws THEN TrimRight(SubSeq(s, 1, Len(s) - 1)) ELSE s

Trim(s) == TrimRight(TrimLeft(s))

FenceAt(text) == {i \in 1..Len(text) : text[i] = Fence}

Min(S) == CHOOSE m \in S : \A n \in S : m <= n

\* jsonMatch[1]: the text between the first two fences, after the optional
\* tag and the white space that follows it; the whole text when the pattern
\* does not match (fewer than two fences).
JsonMatch(text) ==
    IF Cardinality(FenceAt(text)) < 2
    THEN text
    ELSE LET open  == Min(FenceAt(text))
             close == Min(FenceAt(text) \ {open})
             inner == SubSeq(text, open + 1, close - 1)
             untag == IF inner # <<>> /\ Head(inner) = JsonTag
                      THEN Tail(inner) ELSE inner
         IN  TrimLeft(untag)

\* An object with one string property written out: ObjOpen is the text up
\* to and with the quote that opens the string, ObjClose the text from the
\* quote that closes it; the string holds the tokens in between.
ObjOpen == "{q"
ObjClose == "q}"
StringTokens == {Fence, JsonTag, Ws, Prose}

\* JSON.parse: one JSON value, nothing else; ok = FALSE is the SyntaxError
JsonParse(s) ==
    IF Len(s) = 1 /\ s[1] \in JsonTokens
    THEN [ok |-> TRUE, value |-> JsonOf[s[1]]]
    ELSE IF /\ Len(s) >= 2
            /\ s[1] = ObjOpen
            /\ s[Len(s)] = ObjClose
            /\ \A i \in 2..(Len(s) - 1) : s[i] \in StringTokens
    THEN [ok |-> TRUE,
          value |-> [t |-> "object",
                     o |-> [resume |-> SubSeq(s, 2, Len(s) - 1)]]]
    ELSE [ok |-> FALSE, value |-> JsonOf["null"]]

\* Extract that parses the whole text when the fenced part does not parse
ExtractWithFallback(text) ==
    IF JsonParse(Trim(JsonMatch(text))).ok
    THEN JsonParse(Trim(JsonMatch(text)))
    ELSE JsonParse(Trim(text))

Extract(text) == JsonParse(Trim(JsonMatch(text)))

\* parsed.<name>: undefined when the property is missing (the caller has
\* already dealt with parsed = null, where the access throws)
Prop(parsed, name) ==
    IF name \in DOMAIN parsed.o THEN parsed.o[name] ELSE Undefined

\* { ...before, ...parsed, ...after }: later properties win
Spread(before, parsed, after) == after @@ parsed.o @@ before

-----------------------------------------------------------------------------
(* Requests *)

\* A request as accepted: n is its arrival number; answer is {} when
\* req.body.answer is missing; snap is the array the handler loaded before
\* its await.
NewReq(kind, jobId, sid, answer, snap) ==
    [n |-> accepted + 1, kind |-> kind, jobId |-> jobId, sid |-> sid,
     answer |-> answer, snap |-> snap]

\* res.status(status).json(...) and the return that follows.  calls and
\* parses count the model calls and the JSON.parse attempts the handler made
\* for the request, text is what the model returned ({} when it was not
\* called or threw), raw is the "raw" property of the body ({} when the body
\* has none).
Reply(r, status, error, calls, text, raw) ==
    [n |-> r.n, kind |-> r.kind, jobId |-> r.jobId, sid |-> r.sid,
     answer |-> r.answer, status |-> status, error |-> error,
     calls |-> calls, parses |-> Cardinality(text), text |-> text, raw |-> raw]

NoReply ==
    [n |-> 0, kind |-> "", jobId |-> "", sid |-> 0, answer |-> {},
     status |-> 0, error |-> "", calls |-> 0, parses |-> 0,
     text |-> {}, raw |-> {}]

\* an early return: a response sent before any model call
Reject(kind, jobId, sid, answer, status, error) ==
    /\ accepted' = accepted + 1
    /\ last' = Reply(NewReq(kind, jobId, sid, answer, <<>>), status, error,
                     0, {}, {})
    /\ UNCHANGED inflight

\* the handler reaches its await
Suspend(kind, jobId, sid, answer, snap) ==
    /\ accepted' = accepted + 1
    /\ inflight' = inflight \cup {NewReq(kind, jobId, sid, answer, snap)}
    /\ UNCHANGED last

\* new Date() in a handler that writes: handlers that write at different
\* moments read different times, and the clock does not run backwards
Clock == {now + 1}

\* findIndex: the first index whose record has the jobId, 0 for -1
FindIndexByJob(store, jobId) ==
    LET hits == {k \in 1..Len(store) : store[k].jobId = jobId}
    IN  IF hits = {} THEN 0 ELSE Min(hits)

-----------------------------------------------------------------------------
(* generateDocx *)

\* The uuid in the name of the file generateDocx writes, or NoDoc (null)
\* when no template of the type is registered or rendering throws.  The
\* uuids of generated files are numbered apart from those of the records:
\* the n-th file written has uuid n.
NoDoc == 0

GenerateDocx(templateType, renderOk) ==
    IF \A k \in 1..Len(templates) : templates[k].type # templateType
    THEN NoDoc
    ELSE IF ~renderOk THEN NoDoc ELSE Cardinality(generated) + 1

-----------------------------------------------------------------------------
(* templateData of the tailor handler: the slot map given to generateDocx. *)
(* A slot name is a tuple: <<"name">>, <<"mgmt", 1>> for mgmt_1,            *)
(* <<"exp", 1, "title">> for exp1_title, <<"exp", 1, "bullet", 2>> for      *)
(* exp1_bullet2.                                                            *)

\* obj.name: undefined when obj has no such property
Field(obj, name) == IF name \in DOMAIN obj THEN obj[name] ELSE Undefined

\* x || '' for a string or undefined
OrEmpty(x) == IF x = Undefined \/ x = "" THEN "" ELSE x

\* At with the index taken as it is
AtNext(array, i) == IF i + 1 \in 1..Len(array) THEN array[i + 1] ELSE Undefined

\* array[i - 1]: the i-th element, undefined past the end
At(array, i) == IF i \in 1..Len(array) THEN array[i] ELSE Undefined

\* toLocaleDateString('en-US', long month, numeric day and year) of the
\* day-th day of the run
DayNames ==
    << "November 1, 2026", "November 2, 2026", "November 3, 2026",
       "November 4, 2026" >>

ToLocaleDateString(day) == DayNames[day]

HeaderSlots(profile, job, parsed, today) ==
    (<<"name">> :> OrEmpty(Field(profile, "name")))
    @@ (<<"email">> :> OrEmpty(Field(profile, "email")))
    @@ (<<"phone">> :> OrEmpty(Field(profile, "phone")))
    @@ (<<"location">> :> OrEmpty(Field(profile, "location")))
    @@ (<<"title">> :> OrEmpty(Field(profile, "title")))
    @@ (<<"website">> :>
          IF "links" \notin DOMAIN profile THEN ""
          ELSE IF OrEmpty(Field(profile.links, "portfolio")) # ""
          THEN profile.links.portfolio
          ELSE OrEmpty(Field(profile.links, "linkedin")))
    @@ (<<"company">> :> OrEmpty(Field(job, "company")))
    @@ (<<"job_title">> :> OrEmpty(Field(job, "title")))
    @@ (<<"date">> :> ToLocaleDateString(today))
    @@ (<<"resume_content">> :> OrEmpty(Prop(parsed, "resume")))
    @@ (<<"summary">> :> OrEmpty(Prop(parsed, "summary")))

\* skillCategories: the slot prefix of each category
SkillCategories == [mgmt |-> "management", design |-> "design", tools |-> "tools"]

SkillSlotCount == 6

\* parsed.skills?.[category] || []
SkillsOf(parsed, category) ==
    IF "skills" \in DOMAIN parsed.o /\ category \in DOMAIN parsed.o.skills
    THEN parsed.o.skills[category]
    ELSE <<>>

\* SkillSlots that sets a slot only for a skill the result has
SkillSlotsSparse(parsed) ==
    [k \in {c \in (DOMAIN SkillCategories) \X (1..SkillSlotCount) :
               c[2] <= Len(SkillsOf(parsed, SkillCategories[c[1]]))}
        |-> OrEmpty(At(SkillsOf(parsed, SkillCategories[k[1]]), k[2]))]

SkillSlots(parsed) ==
    [k \in (DOMAIN SkillCategories) \X (1..SkillSlotCount)
        |-> OrEmpty(At(SkillsOf(parsed, SkillCategories[k[1]]), k[2]))]

\* BulletCounts with the budget of the first experience for each
BulletCountsFlat == <<4, 4, 4, 4>>

\* bulletCounts: the bullet slots of each experience slot
BulletCounts == <<4, 3, 3, 2>>

\* experiences[e - 1] || {}, with experiences = parsed.experiences || []
ExperienceAt(parsed, e) ==
    IF "experiences" \in DOMAIN parsed.o /\ e \in 1..Len(parsed.o.experiences)
    THEN parsed.o.experiences[e]
    ELSE <<>>

\* exp.bullets || []
BulletsOf(exp) == IF "bullets" \in DOMAIN exp THEN exp.bullets ELSE <<>>

ExperienceSlots(parsed) ==
    [k \in {<<"exp", e, f>> : e \in 1..Len(BulletCounts),
                              f \in {"title", "company", "location", "dates"}}
        |-> OrEmpty(Field(ExperienceAt(parsed, k[2]), k[3]))]
    @@
    [k \in UNION {{<<"exp", e, "bullet", b>> : b \in 1..BulletCounts[e]} :
                    e \in 1..Len(BulletCounts)}
        |-> OrEmpty(At(BulletsOf(ExperienceAt(parsed, k[2])), k[4]))]

\* templateData, built on the day today
MapToSlots(profile, job, parsed, today) ==
    HeaderSlots(profile, job, parsed, today)
        @@ SkillSlots(parsed) @@ ExperienceSlots(parsed)

-----------------------------------------------------------------------------
(* The post-processing of generateDocx.  word/document.xml is the sequence *)
(* of its paragraphs, a paragraph is the characters of its text elements   *)
(* joined; a character is white space, a dash, a bullet, a pipe or a       *)
(* letter.                                                                  *)

EmDash == "emdash"
Bullet == "bullet"
Hyphen == "-"
Pipe == "|"

\* the character class of the pattern that strips separators
SeparatorClass == {Ws, EmDash, Bullet, Hyphen, Pipe}

\* texts.replace(separators, '').trim()
Stripped(texts) == Trim(SelectSeq(texts, LAMBDA c : c \notin SeparatorClass))

\* IsArtifact for a paragraph that holds any separator
IsArtifactLoose(paragraph) ==
    Trim(paragraph) # <<>> /\ Len(Stripped(paragraph)) < Len(paragraph)

\* texts.trim() && !stripped
IsArtifact(paragraph) ==
    Trim(paragraph) # <<>> /\ Stripped(paragraph) = <<>>

\* docXml.replace(p, ''): the first occurrence of the paragraph goes
RemoveFirst(docXml, paragraph) ==
    LET hits == {i \in 1..Len(docXml) : docXml[i] = paragraph}
    IN  IF hits = {} THEN docXml
        ELSE SubSeq(docXml, 1, Min(hits) - 1)
                \o SubSeq(docXml, Min(hits) + 1, Len(docXml))

\* for (const p of paragraphs) from the n-th on, on the document so far
RECURSIVE RepairLoop(_, _, _)
RepairLoop(docXml, paragraphs, n) ==
    IF n > Len(paragraphs) THEN docXml
    ELSE RepairLoop(IF IsArtifact(paragraphs[n])
                    THEN RemoveFirst(docXml, paragraphs[n]) ELSE docXml,
                    paragraphs, n + 1)

\* the document after the pass: paragraphs is matched on the rendered text
Repair(docXml) == RepairLoop(docXml, docXml, 1)

-----------------------------------------------------------------------------
(* POST /api/jobs, POST /api/templates/upload *)

AddJob ==
    /\ nextJob < MaxJobs
    /\ nextJob' = nextJob + 1
    /\ jobs' = jobs \cup {JobUuid(nextJob + 1)}
    /\ UNCHANGED <<arg, ret, resumes, coverLetters, interviews, templates,
                   uploads, generated, inflight, accepted, last, now, nextId>>

TemplateTypes == {"resume", "cover-letter"}

\* req.body.type as a caller may send it
TemplateTypeArgs == TemplateTypes \cup {"letter"}

\* UploadTemplate without the filter of the templates of the same type
UploadTemplateKeep(templateType) ==
    /\ templates' = IF templateType \in TemplateTypes
                    THEN Append(templates, [id |-> uploads + 1,
                                            type |-> templateType])
                    ELSE templates
    /\ uploads' = IF templateType \in TemplateTypes THEN uploads + 1 ELSE uploads
    /\ UNCHANGED <<arg, ret, jobs, nextJob, resumes, coverLetters, interviews,
                   generated, inflight, accepted, last, now, nextId>>

\* the n-th upload gets template uuid n; a type that is not one of the two
\* is answered 400 before anything is written
UploadTemplate(templateType) ==
    /\ LET id == uploads + 1
           filtered == SelectSeq(templates, LAMBDA t : t.type # templateType)
           entry == [id |-> id, type |-> templateType]
       IN  /\ templates' = IF templateType \in TemplateTypes
                           THEN Append(filtered, entry) ELSE templates
           /\ uploads' = IF templateType \in TemplateTypes
                         THEN uploads + 1 ELSE uploads
           /\ UNCHANGED <<arg, ret, jobs, nextJob, resumes, coverLetters, interviews,
                          generated, inflight, accepted, last, now, nextId>>

\* DELETE /api/templates/:id: 404 and nothing written when no template has
\* the id
DeleteTemplate(id) ==
    /\ templates' = SelectSeq(templates, LAMBDA t : t.id # id)
    /\ UNCHANGED <<arg, ret, jobs, nextJob, resumes, coverLetters, interviews,
                   uploads, generated, inflight, accepted, last, now, nextId>>

\* PUT /api/jobs/:id: the record is rewritten with the body spread over it
\* and its id kept, 404 when no job has the id; jobs.json alone is written
UpdateJob(jobId) ==
    /\ jobs' = IF jobId \in jobs THEN (jobs \ {jobId}) \cup {jobId} ELSE jobs
    /\ UNCHANGED <<arg, ret, nextJob, resumes, coverLetters, interviews,
                   templates, uploads, generated, inflight, accepted, last,
                   now, nextId>>

\* DeleteJob that deletes the Artifacts of the job with it
DeleteJobCascade(jobId) ==
    /\ jobs' = jobs \ {jobId}
    /\ resumes' = SelectSeq(resumes, LAMBDA a : a.jobId # jobId)
    /\ coverLetters' = SelectSeq(coverLetters, LAMBDA a : a.jobId # jobId)
    /\ UNCHANGED <<arg, ret, nextJob, interviews, templates, uploads,
                   generated, inflight, accepted, last, now, nextId>>

\* DELETE /api/jobs/:id: 404 and nothing written when no job has the id
DeleteJob(jobId) ==
    /\ jobs' = jobs \ {jobId}
    /\ UNCHANGED <<arg, ret, nextJob, resumes, coverLetters, interviews,
                   templates, uploads, generated, inflight, accepted, last,
                   now, nextId>>

-----------------------------------------------------------------------------
(* POST /api/resume/tailor and POST /api/cover-letter/generate *)

\* The handler up to "await callClaude": the two early returns.
GenBegin(kind, jobId) ==
    /\ IF jobId = NoJob
       THEN Reject(kind, jobId, 0, {}, 400, "jobId is required")
       ELSE IF jobId \notin jobs
       THEN Reject(kind, jobId, 0, {}, 404, "Job not found")
       ELSE Suspend(kind, jobId, 0, {}, <<>>)
    /\ UNCHANGED <<arg, ret, jobs, nextJob, resumes, coverLetters, interviews,
                   templates, uploads, generated, now, nextId>>

TailorBegin(jobId) == GenBegin("tailor", jobId)

CoverBegin(jobId) == GenBegin("cover", jobId)

\* resumeEntry / clEntry as saved: the object literal, then docxPath when a
\* document was generated.  existing is the findIndex result (0 for -1).
ArtifactEntry(store, existing, jobId, parsed, t, docx) ==
    LET entry == Spread([id    |-> IF existing > 0 THEN store[existing].id
                                   ELSE nextId + 1,
                         jobId |-> jobId],
                        parsed,
                        [createdAt |-> IF existing > 0
                                       THEN store[existing].createdAt ELSE t,
                         updatedAt |-> t])
    IN  IF docx # NoDoc THEN [docxPath |-> docx] @@ entry ELSE entry

\* resumes[existing] = resumeEntry, or resumes.push(resumeEntry)
Upsert(store, existing, entry) ==
    IF existing > 0 THEN [store EXCEPT ![existing] = entry]
    ELSE Append(store, entry)

\* The handler from the return of callClaude with text to its response,
\* on the store it upserts; the result is <<store', response, nextId',
\* generated'>>.
GenFinish(r, store, templateType, parseError, catchError, text, renderOk, t) ==
    LET ex == Extract(text)
        existing == FindIndexByJob(store, r.jobId)
        docx == GenerateDocx(templateType, renderOk)
        entry == ArtifactEntry(store, existing, r.jobId, ex.value, t, docx)
    IN  IF ~ex.ok
        THEN <<store, Reply(r, 500, parseError, 1, {text}, {text}),
               nextId, generated>>
        ELSE IF ex.value.t = "null"
        THEN <<store, Reply(r, 500, catchError, 1, {text}, {}),
               nextId, generated>>
        ELSE <<Upsert(store, existing, entry), Reply(r, 200, "", 1, {text}, {}),
               IF existing > 0 THEN nextId ELSE nextId + 1,
               IF docx # NoDoc THEN generated \cup {docx} ELSE generated>>

TailorFinish(r, text, renderOk) ==
    /\ r \in inflight
    /\ r.kind = "tailor"
    /\ \E t \in Clock :
         LET out == GenFinish(r, resumes, "resume",
                              "Failed to parse tailored resume",
                              "Failed to tailor resume", text, renderOk, t)
         IN  /\ resumes' = out[1]
             /\ last' = out[2]
             /\ nextId' = out[3]
             /\ generated' = out[4]
             /\ now' = IF out[2].status = 200 THEN t ELSE now
    /\ inflight' = inflight \ {r}
    /\ UNCHANGED <<arg, ret, jobs, nextJob, coverLetters, interviews, templates, uploads, accepted>>

CoverFinish(r, text, renderOk) ==
    /\ r \in inflight
    /\ r.kind = "cover"
    /\ \E t \in Clock :
         LET out == GenFinish(r, coverLetters, "cover-letter",
                              "Failed to parse cover letter",
                              "Failed to generate cover letter", text, renderOk, t)
         IN  /\ coverLetters' = out[1]
             /\ last' = out[2]
             /\ nextId' = out[3]
             /\ generated' = out[4]
             /\ now' = IF out[2].status = 200 THEN t ELSE now
    /\ inflight' = inflight \ {r}
    /\ UNCHANGED <<arg, ret, jobs, nextJob, resumes, interviews, templates, uploads, accepted>>

\* callClaude / client.messages.create rejects: the handler's catch replies
CatchError(kind) ==
    CASE kind = "tailor"  -> "Failed to tailor resume"
      [] kind = "cover"   -> "Failed to generate cover letter"
      [] kind = "start"   -> "Failed to start mock interview"
      [] kind = "respond" -> "Failed to process interview response"
      [] kind = "end"     -> "Failed to end mock interview"

\* ModelThrows with no catch: the request ends without a response
ModelThrowsUncaught(r) ==
    /\ r \in inflight
    /\ inflight' = inflight \ {r}
    /\ UNCHANGED <<arg, ret, jobs, nextJob, resumes, coverLetters, interviews,
                   templates, uploads, generated, accepted, last, now, nextId>>

ModelThrows(r) ==
    /\ r \in inflight
    /\ inflight' = inflight \ {r}
    /\ last' = Reply(r, 500, CatchError(r.kind), 1, {}, {})
    /\ UNCHANGED <<arg, ret, jobs, nextJob, resumes, coverLetters, interviews,
                   templates, uploads, generated, accepted, now, nextId>>

-----------------------------------------------------------------------------
(* Mock interviews: POST /api/jobs/:jobId/mock-interview/start,            *)
(* /:id/respond and /:id/end                                               *)

\* null, for feedback and for completedAt
NoFeedback == JsonOf["null"]
NoTime == 0

\* interviews.find((i) => i.id === id && i.jobId === jobId): the index of
\* the session in the array, 0 when there is none
FindSession(array, sid, jobId) ==
    LET hits == {k \in 1..Len(array) :
                    array[k].id = sid /\ array[k].jobId = jobId}
    IN  IF hits = {} THEN 0 ELSE Min(hits)

\* BlankAnswer without the trim: !answer alone
BlankAnswerNoTrim(answer) ==
    \/ answer = {}
    \/ \E a \in answer : AnswerText[a] = <<>>

\* !answer || !answer.trim()
BlankAnswer(answer) ==
    \/ answer = {}
    \/ \E a \in answer : AnswerText[a] = <<>> \/ Trim(AnswerText[a]) = <<>>

\* StartBegin without the job lookup
StartBeginNoLookup(jobId) ==
    /\ Suspend("start", jobId, 0, {}, <<>>)
    /\ UNCHANGED <<arg, ret, jobs, nextJob, resumes, coverLetters, interviews,
                   templates, uploads, generated, now, nextId>>

StartBegin(jobId) ==
    /\ IF jobId \notin jobs
       THEN Reject("start", jobId, 0, {}, 404, "Job not found")
       ELSE Suspend("start", jobId, 0, {}, <<>>)
    /\ UNCHANGED <<arg, ret, jobs, nextJob, resumes, coverLetters, interviews,
                   templates, uploads, generated, now, nextId>>

\* the opening message, and the message respond appends for the model
OpeningMessage(parsed) ==
    [role |-> "assistant", content |-> Prop(parsed, "question"),
     questionType |-> Prop(parsed, "questionType"), tip |-> Prop(parsed, "tip")]

InterviewerMessage(parsed) ==
    [role |-> "assistant", content |-> Prop(parsed, "question"),
     feedback |-> Prop(parsed, "feedback"),
     questionType |-> Prop(parsed, "questionType"), tip |-> Prop(parsed, "tip")]

CandidateMessage(answer) ==
    [role |-> "user", content |-> CHOOSE a \in answer : TRUE]

StartFinish(r, text) ==
    /\ r \in inflight
    /\ r.kind = "start"
    /\ inflight' = inflight \ {r}
    /\ LET ex == Extract(text)
           t == CHOOSE c \in Clock : TRUE
           session == [id |-> nextId + 1, jobId |-> r.jobId,
                       messages |-> <<OpeningMessage(ex.value)>>,
                       questionCount |-> 1, feedback |-> NoFeedback,
                       createdAt |-> t, completedAt |-> NoTime]
       IN  IF ~ex.ok
           THEN /\ last' = Reply(r, 500, "Failed to parse interviewer response",
                                 1, {text}, {text})
                /\ UNCHANGED <<interviews, now, nextId>>
           ELSE IF ex.value.t = "null"
           THEN /\ last' = Reply(r, 500, CatchError("start"), 1, {text}, {})
                /\ UNCHANGED <<interviews, now, nextId>>
           ELSE /\ interviews' = Append(interviews, session)
                /\ last' = Reply(r, 201, "", 1, {text}, {})
                /\ now' = t
                /\ nextId' = nextId + 1
    /\ UNCHANGED <<arg, ret, jobs, nextJob, resumes, coverLetters, templates, uploads,
                   generated, accepted>>

\* RespondBegin that looks the session up before it looks at the answer
RespondBeginSessionFirst(jobId, sid, answer) ==
    /\ LET k == FindSession(interviews, sid, jobId)
       IN  IF k = 0
           THEN Reject("respond", jobId, sid, answer, 404,
                       "Interview session not found")
           ELSE IF interviews[k].completedAt # NoTime
           THEN Reject("respond", jobId, sid, answer, 400,
                       "This interview session is already complete")
           ELSE IF BlankAnswer(answer)
           THEN Reject("respond", jobId, sid, answer, 400, "Answer is required")
           ELSE Suspend("respond", jobId, sid, answer, interviews)
    /\ UNCHANGED <<arg, ret, jobs, nextJob, resumes, coverLetters, interviews,
                   templates, uploads, generated, now, nextId>>

\* RespondBegin with the two session checks merged into the 404
RespondBeginMerged(jobId, sid, answer) ==
    /\ LET k == FindSession(interviews, sid, jobId)
       IN  IF BlankAnswer(answer)
           THEN Reject("respond", jobId, sid, answer, 400, "Answer is required")
           ELSE IF k = 0 \/ interviews[k].completedAt # NoTime
           THEN Reject("respond", jobId, sid, answer, 404,
                       "Interview session not found")
           ELSE Suspend("respond", jobId, sid, answer, interviews)
    /\ UNCHANGED <<arg, ret, jobs, nextJob, resumes, coverLetters, interviews,
                   templates, uploads, generated, now, nextId>>

RespondBegin(jobId, sid, answer) ==
    /\ LET k == FindSession(interviews, sid, jobId)
       IN  IF BlankAnswer(answer)
           THEN Reject("respond", jobId, sid, answer, 400, "Answer is required")
           ELSE IF k = 0
           THEN Reject("respond", jobId, sid, answer, 404,
                       "Interview session not found")
           ELSE IF interviews[k].completedAt # NoTime
           THEN Reject("respond", jobId, sid, answer, 400,
                       "This interview session is already complete")
           ELSE Suspend("respond", jobId, sid, answer, interviews)
    /\ UNCHANGED <<arg, ret, jobs, nextJob, resumes, coverLetters, interviews,
                   templates, uploads, generated, now, nextId>>

\* AfterRespond without the push of the candidate's answer
AfterRespondNoAnswer(array, k, answer, parsed) ==
    [array EXCEPT
        ![k].messages = Append(@, [role |-> "assistant",
                                   content |-> Prop(parsed, "question"),
                                   feedback |-> Prop(parsed, "feedback"),
                                   questionType |-> Prop(parsed, "questionType"),
                                   tip |-> Prop(parsed, "tip")]),
        ![k].questionCount = @ + 1]

\* session.messages.push(answer), push(interviewer turn), questionCount += 1
\* on the session of the array loaded before the await
AfterRespond(array, k, answer, parsed) ==
    [array EXCEPT
        ![k].messages = @ \o <<CandidateMessage(answer), InterviewerMessage(parsed)>>,
        ![k].questionCount = @ + 1]

\* RespondFinish that saves the array right after the push of the answer,
\* before it reads the parsed reply
RespondFinishSaveFirst(r, text) ==
    /\ r \in inflight
    /\ r.kind = "respond"
    /\ inflight' = inflight \ {r}
    /\ LET ex == Extract(text)
           k == FindSession(r.snap, r.sid, r.jobId)
           pushed == [r.snap EXCEPT ![k].messages =
                        Append(@, [role |-> "user",
                                   content |-> CHOOSE a \in r.answer : TRUE])]
       IN  IF ~ex.ok
           THEN /\ last' = Reply(r, 500, "Failed to parse interviewer response",
                                 1, {text}, {text})
                /\ UNCHANGED interviews
           ELSE IF ex.value.t = "null"
           THEN /\ last' = Reply(r, 500, "Failed to process interview response",
                                 1, {text}, {})
                /\ interviews' = pushed
           ELSE /\ interviews' =
                     [pushed EXCEPT
                        ![k].messages = Append(@,
                            [role |-> "assistant",
                             content |-> Prop(ex.value, "question"),
                             feedback |-> Prop(ex.value, "feedback"),
                             questionType |-> Prop(ex.value, "questionType"),
                             tip |-> Prop(ex.value, "tip")]),
                        ![k].questionCount = @ + 1]
                /\ last' = Reply(r, 200, "", 1, {text}, {})
    /\ UNCHANGED <<arg, ret, jobs, nextJob, resumes, coverLetters, templates, uploads,
                   generated, accepted, now, nextId>>

RespondFinish(r, text) ==
    /\ r \in inflight
    /\ r.kind = "respond"
    /\ inflight' = inflight \ {r}
    /\ LET ex == Extract(text)
           k == FindSession(r.snap, r.sid, r.jobId)
       IN  IF ~ex.ok
           THEN /\ last' = Reply(r, 500, "Failed to parse interviewer response",
                                 1, {text}, {text})
                /\ UNCHANGED interviews
           ELSE IF ex.value.t = "null"
           THEN /\ last' = Reply(r, 500, CatchError("respond"), 1, {text}, {})
                /\ UNCHANGED interviews
           ELSE /\ interviews' = AfterRespond(r.snap, k, r.answer, ex.value)
                /\ last' = Reply(r, 200, "", 1, {text}, {})
    /\ UNCHANGED <<arg, ret, jobs, nextJob, resumes, coverLetters, templates, uploads,
                   generated, accepted, now, nextId>>

EndBegin(jobId, sid) ==
    /\ IF FindSession(interviews, sid, jobId) = 0
       THEN Reject("end", jobId, sid, {}, 404, "Interview session not found")
       ELSE Suspend("end", jobId, sid, {}, interviews)
    /\ UNCHANGED <<arg, ret, jobs, nextJob, resumes, coverLetters, interviews,
                   templates, uploads, generated, now, nextId>>

\* session.feedback = parsed; session.completedAt = new Date()
AfterEnd(array, k, parsed, t) ==
    [array EXCEPT ![k].feedback = parsed, ![k].completedAt = t]

EndFinish(r, text) ==
    /\ r \in inflight
    /\ r.kind = "end"
    /\ inflight' = inflight \ {r}
    /\ LET ex == Extract(text)
           k == FindSession(r.snap, r.sid, r.jobId)
           t == CHOOSE c \in Clock : TRUE
       IN  IF ~ex.ok
           THEN /\ last' = Reply(r, 500, "Failed to parse assessment",
                                 1, {text}, {text})
                /\ UNCHANGED <<interviews, now>>
           ELSE /\ interviews' = AfterEnd(r.snap, k, ex.value, t)
                /\ last' = Reply(r, 200, "", 1, {text}, {})
                /\ now' = t
    /\ UNCHANGED <<arg, ret, jobs, nextJob, resumes, coverLetters, templates, uploads,
                   generated, accepted, nextId>>

-----------------------------------------------------------------------------
(* Specifications *)

Init ==
    /\ jobs = {}
    /\ nextJob = 0
    /\ resumes = <<>>
    /\ coverLetters = <<>>
    /\ interviews = <<>>
    /\ templates = <<>>
    /\ uploads = 0
    /\ generated = {}
    /\ inflight = {}
    /\ accepted = 0
    /\ last = NoReply
    /\ now = 1
    /\ nextId = 0
    /\ arg = <<>>
    /\ ret = <<>>

\* what the model may answer to a generation request
TailorTexts ==
    { <<"oRes">>, <<"oResJob">>, <<"oResId">>, <<"oResDoc">>,
      <<Fence, JsonTag, Ws, "oRes", Fence>>, <<Prose, "oRes">>,
      <<"null">>, <<"num">> }

CoverTexts ==
    { <<"oCl">>, <<"oClJob">>, <<"oClId">>, <<"oClDoc">>,
      <<Fence, JsonTag, Ws, "oCl", Fence>>, <<Prose, "oCl">>,
      <<"null">>, <<"num">> }

\* the requests a caller may send to the generation routes
GenRequest ==
    \/ \E j \in JobArgs \cup {NoJob} : TailorBegin(j)
    \/ \E j \in JobArgs \cup {NoJob} : CoverBegin(j)

\* the model calls of generation requests return or throw
GenReturn ==
    \/ \E r \in inflight, text \in TailorTexts, renderOk \in BOOLEAN :
          TailorFinish(r, text, renderOk)
    \/ \E r \in inflight, text \in CoverTexts, renderOk \in BOOLEAN :
          CoverFinish(r, text, renderOk)
    \/ \E r \in inflight : ModelThrows(r)

NextGen ==
    \/ AddJob
    \/ uploads < MaxUploads /\ \E ty \in TemplateTypeArgs : UploadTemplate(ty)
    \/ accepted < MaxReqs /\ GenRequest
    \/ GenReturn

SpecGen == Init /\ [][NextGen]_vars

MaxTemplates == 8   \* templates uploaded in a run of the registry alone

\* the template routes alone; ids a caller may send: those issued, and 0
NextTemplates ==
    \/ uploads < MaxTemplates /\ \E ty \in TemplateTypeArgs : UploadTemplate(ty)
    \/ \E id \in 0..uploads : DeleteTemplate(id)

SpecTemplates == Init /\ [][NextTemplates]_vars

\* what the model may answer to start and respond, and to end
TurnTexts ==
    { <<Fence, "oQ", Ws, Fence>>, <<Prose>>, <<"null">>, <<"num">> }

EndTexts ==
    { <<"oFb">>, <<Fence, Prose, Fence>>, <<"null">>, <<"num">> }

\* session ids a caller may send: those issued so far, and one never issued
SidArgs == 0..nextId

\* one job record has been created
InitInterview ==
    /\ jobs = {JobUuid(1)}
    /\ nextJob = 1
    /\ resumes = <<>>
    /\ coverLetters = <<>>
    /\ interviews = <<>>
    /\ templates = <<>>
    /\ uploads = 0
    /\ generated = {}
    /\ inflight = {}
    /\ accepted = 0
    /\ last = NoReply
    /\ now = 1
    /\ nextId = 0
    /\ arg = <<>>
    /\ ret = <<>>

\* job ids sent with interview requests: the job's, and another
InterviewJobArgs == {"j1", "j2"}

\* the requests a caller may send to the interview routes
InterviewRequest ==
    \/ \E j \in InterviewJobArgs : StartBegin(j)
    \/ \E j \in InterviewJobArgs, sid \in SidArgs, a \in AnswerArgs :
          RespondBegin(j, sid, a)
    \/ \E j \in InterviewJobArgs, sid \in SidArgs : EndBegin(j, sid)

\* the model calls of interview requests return or throw
InterviewReturn ==
    \/ \E r \in inflight, text \in TurnTexts : StartFinish(r, text)
    \/ \E r \in inflight, text \in TurnTexts : RespondFinish(r, text)
    \/ \E r \in inflight, text \in EndTexts : EndFinish(r, text)
    \/ \E r \in inflight : ModelThrows(r)

NextInterview ==
    \/ /\ accepted < MaxTurns
       /\ Cardinality(inflight) < MaxInFlight
       /\ InterviewRequest
    \/ InterviewReturn
    \/ \E j \in InterviewJobArgs : DeleteJob(j)

SpecInterview == InitInterview /\ [][NextInterview]_vars

\* every handler of the pipeline, on one set of files
Next ==
    \/ AddJob
    \/ /\ accepted < MaxAccepted
       /\ Cardinality(inflight) < MaxInFlight
       /\ (GenRequest \/ InterviewRequest)
    \/ GenReturn
    \/ InterviewReturn
    \/ \E j \in JobArgs : DeleteJob(j)

Spec == Init /\ [][Next]_vars

MaxStoreReqs == 2   \* requests accepted in a run over every route

\* what the model may answer in a run over every route: a result, and for
\* a resume a result with a jobId of its own (a call that fails is
\* ModelThrows); rendering succeeds when a template is registered
StoreTailorTexts == { <<"oRes">>, <<"oResJob">> }

StoreCoverTexts == { <<"oCl">> }

StoreTurnTexts == { <<Fence, "oQ", Ws, Fence>> }

StoreEndTexts == { <<"oFb">> }

\* the requests a caller sends in such a run: generation for a job or for
\* none, interview turns for the first job with an answer
StoreRequest ==
    \/ \E j \in JobArgs : TailorBegin(j)
    \/ \E j \in JobArgs : CoverBegin(j)
    \/ StartBegin(JobUuid(1))
    \/ \E sid \in SidArgs : RespondBegin(JobUuid(1), sid, {"a1"})
    \/ \E sid \in SidArgs : EndBegin(JobUuid(1), sid)

\* every route that writes a store of the pipeline: jobs (create, update,
\* delete), templates (upload, delete), generation and interview
NextStore ==
    \/ AddJob
    \/ \E j \in JobArgs : UpdateJob(j)
    \/ \E j \in JobArgs : DeleteJob(j)
    \/ uploads < MaxUploads /\ \E ty \in TemplateTypeArgs : UploadTemplate(ty)
    \/ \E id \in 0..uploads : DeleteTemplate(id)
    \/ /\ accepted < MaxStoreReqs
       /\ Cardinality(inflight) < MaxInFlight
       /\ StoreRequest
    \/ \E r \in inflight, text \in StoreTailorTexts : TailorFinish(r, text, TRUE)
    \/ \E r \in inflight, text \in StoreCoverTexts : CoverFinish(r, text, TRUE)
    \/ \E r \in inflight, text \in StoreTurnTexts : StartFinish(r, text)
    \/ \E r \in inflight, text \in StoreTurnTexts : RespondFinish(r, text)
    \/ \E r \in inflight, text \in StoreEndTexts : EndFinish(r, text)
    \/ \E r \in inflight : ModelThrows(r)

SpecStore == Init /\ [][NextStore]_vars

MaxLiveReqs == 2    \* requests accepted in a run with fair model calls

\* what the model may answer in such a run: a result, prose around it
\* (which does not parse), null and a number
LiveTailorTexts == { <<"oRes">>, <<Prose, "oRes">>, <<"null">>, <<"num">> }

LiveCoverTexts == { <<"oCl">>, <<Prose, "oCl">>, <<"null">>, <<"num">> }

\* the requests a caller sends: for the job and for an unknown one, with an
\* answer and with a blank one
LiveRequest ==
    \/ \E j \in {JobUuid(1), "j9"} : TailorBegin(j)
    \/ \E j \in {JobUuid(1), "j9"} : CoverBegin(j)
    \/ \E j \in {JobUuid(1), "j9"} : StartBegin(j)
    \/ \E sid \in SidArgs, a \in {{"a1"}, {"blank"}} :
          RespondBegin(JobUuid(1), sid, a)
    \/ \E sid \in SidArgs : EndBegin(JobUuid(1), sid)

\* the model calls return or throw
LiveReturn ==
    \/ \E r \in inflight, text \in LiveTailorTexts, renderOk \in BOOLEAN :
          TailorFinish(r, text, renderOk)
    \/ \E r \in inflight, text \in LiveCoverTexts, renderOk \in BOOLEAN :
          CoverFinish(r, text, renderOk)
    \/ InterviewReturn

\* the generation and interview routes, for one job
NextLive ==
    \/ /\ accepted < MaxLiveReqs
       /\ Cardinality(inflight) < MaxInFlight
       /\ LiveRequest
    \/ LiveReturn

\* every model call returns or fails in the end: the promise of callClaude
\* settles and node runs the rest of the handler
SpecLive ==
    InitInterview /\ [][NextLive]_vars /\ WF_vars(LiveReturn)

-----------------------------------------------------------------------------
(* Function-level runs: the input is drawn at the start, the function is   *)
(* applied to it, no request is served                                      *)

MaxLen == 5         \* tokens of a model output given to the extractor

\* no job, record, template or request
NoTraffic ==
    /\ jobs = {}
    /\ nextJob = 0
    /\ resumes = <<>>
    /\ coverLetters = <<>>
    /\ interviews = <<>>
    /\ templates = <<>>
    /\ uploads = 0
    /\ generated = {}
    /\ inflight = {}
    /\ accepted = 0
    /\ last = NoReply
    /\ now = 1
    /\ nextId = 0

SeqsUpTo(S, n) == UNION {[1..k -> S] : k \in 0..n}

\* the model outputs given to the extractor
ExtractTokens == {Fence, JsonTag, Ws, Prose, "oRes", ObjOpen, ObjClose}

InitExtract ==
    /\ NoTraffic
    /\ arg \in SeqsUpTo(ExtractTokens, MaxLen)
    /\ ret = <<>>

\* the try / catch around the extraction of the tailor handler: parsed, or
\* the body of the 500 response with the result of callClaude as raw
ExtractCall ==
    /\ ret = <<>>
    /\ ret' = IF Extract(arg).ok
              THEN <<[parsed |-> Extract(arg).value]>>
              ELSE <<[error |-> "Failed to parse tailored resume", raw |-> arg]>>
    /\ UNCHANGED <<arg, jobs, nextJob, resumes, coverLetters, interviews,
                   templates, uploads, generated, inflight, accepted, last,
                   now, nextId>>

NextExtract == ExtractCall

SpecExtract == InitExtract /\ [][NextExtract]_vars

MaxMaps == 2        \* times the slot map is built for the same input

\* skills lists of a result: none, 5, 6 and 8 entries
SkillLists ==
    { <<>>, <<"s1", "s2", "s3", "s4", "s5">>,
      <<"s1", "s2", "s3", "s4", "s5", "s6">>,
      <<"s1", "s2", "s3", "s4", "s5", "s6", "s7", "s8">> }

\* the skills property of a result, when it has one
SkillsArgs ==
    {[management |-> l] : l \in SkillLists}
        \cup {[management |-> l, design |-> <<"d1">>, tools |-> <<>>] :
                l \in SkillLists}

\* five experiences of five bullets each, no two values alike
FiveExperiences ==
    << [title |-> "T1", company |-> "C1", location |-> "L1", dates |-> "D1",
        bullets |-> <<"b11", "b12", "b13", "b14", "b15">>],
       [title |-> "T2", company |-> "C2", location |-> "L2", dates |-> "D2",
        bullets |-> <<"b21", "b22", "b23", "b24", "b25">>],
       [title |-> "T3", company |-> "C3", location |-> "L3", dates |-> "D3",
        bullets |-> <<"b31", "b32", "b33", "b34", "b35">>],
       [title |-> "T4", company |-> "C4", location |-> "L4", dates |-> "D4",
        bullets |-> <<"b41", "b42", "b43", "b44", "b45">>],
       [title |-> "T5", company |-> "C5", location |-> "L5", dates |-> "D5",
        bullets |-> <<"b51", "b52", "b53", "b54", "b55">>] >>

\* experiences of a result: one with a title only, one with everything and
\* five bullets, five of them
ExperienceArgs ==
    LET bare == [title |-> "T1"]
        full == [title |-> "T2", company |-> "C2", location |-> "L2",
                 dates |-> "D2", bullets |-> <<"b1", "b2", "b3", "b4", "b5">>]
    IN  { <<>>, <<bare>>, <<bare, full>>, <<full, full, full, full, full>>,
          FiveExperiences }

\* parsed results given to the mapper: objects with any of resume, summary,
\* skills and experiences missing, and a number
MapperResults ==
    LET base == {[resume |-> "R1"], [resume |-> "R1", summary |-> "S1"]}
        withSkills == base \cup {[skills |-> sk] @@ b :
                                   sk \in SkillsArgs, b \in base}
        withExps == withSkills \cup {[experiences |-> ex] @@ b :
                                       ex \in ExperienceArgs, b \in withSkills}
    IN  {[t |-> "object", o |-> o] : o \in withExps} \cup {JsonOf["num"]}

\* profile.json: the default, and one filled in
ProfileArgs ==
    { [name |-> "", email |-> "", phone |-> "", location |-> ""],
      [name |-> "N", email |-> "E", phone |-> "P", location |-> "L",
       title |-> "T", links |-> [linkedin |-> "in"]] }

\* the job record: with and without title and company
JobRecordArgs == { [id |-> "j1"], [id |-> "j1", title |-> "JT", company |-> "JC"] }

InitMapper ==
    /\ NoTraffic
    /\ arg \in [profile : ProfileArgs, job : JobRecordArgs, parsed : MapperResults]
    /\ ret = <<>>

\* the tailor handler builds templateData for the input once more, on the
\* day of the last time or on the next day
MapCall ==
    /\ Len(ret) < MaxMaps
    /\ \E today \in IF ret = <<>> THEN {1}
                    ELSE {ret[Len(ret)].day, ret[Len(ret)].day + 1} :
          ret' = Append(ret, [day |-> today,
                              slots |-> MapToSlots(arg.profile, arg.job,
                                                   arg.parsed, today)])
    /\ UNCHANGED <<arg, jobs, nextJob, resumes, coverLetters, interviews,
                   templates, uploads, generated, inflight, accepted, last,
                   now, nextId>>

NextMapper == MapCall

SpecMapper == InitMapper /\ [][NextMapper]_vars

MaxParagraphs == 3  \* paragraphs of a rendered document

\* the texts a paragraph of a rendered document may have: none, white space,
\* " -- " with an em dash, a bullet, a hyphen and a pipe, "S -- P", "a"
ParagraphTexts ==
    { <<>>, <<Ws>>, <<Ws, EmDash, Ws>>, <<Bullet>>, <<Hyphen, Pipe>>,
      <<"S", Ws, EmDash, Ws, "P">>, <<"a">> }

InitRepair ==
    /\ NoTraffic
    /\ arg \in SeqsUpTo(ParagraphTexts, MaxParagraphs)
    /\ ret = <<>>

\* generateDocx post-processes the rendered document
RepairCall ==
    /\ ret = <<>>
    /\ ret' = <<Repair(arg)>>
    /\ UNCHANGED <<arg, jobs, nextJob, resumes, coverLetters, interviews,
                   templates, uploads, generated, inflight, accepted, last,
                   now, nextId>>

NextRepair == RepairCall

SpecRepair == InitRepair /\ [][NextRepair]_vars

-----------------------------------------------------------------------------
(* Properties *)

\* the response of this step, when the step sends one
Answered == last'.n # last.n

\* q is the request that arrives in this step
Arrives(q) == accepted' = accepted + 1 /\ q.n = accepted + 1

\* the session is in the array and has been ended
Completed(array, sid, jobId) ==
    LET k == FindSession(array, sid, jobId)
    IN  k > 0 /\ array[k].completedAt # NoTime

OnePerJob(store) ==
    \A a, b \in 1..Len(store) : store[a].jobId = store[b].jobId => a = b

\* C1: whatever generation requests were served, the resumes store holds at
\* most one Artifact per jobId and so does the cover-letters store.
C1_OneArtifactPerJob == OnePerJob(resumes) /\ OnePerJob(coverLetters)

ArtifactIds ==
    {resumes[k].id : k \in 1..Len(resumes)}
        \cup {coverLetters[k].id : k \in 1..Len(coverLetters)}

\* a successful generation for jobId at time t took store to after: the
\* Artifact of the job kept its place, id and createdAt and has updatedAt = t;
\* or there was none and one was appended, with an id no Artifact had
RegeneratedOrCreated(store, after, jobId, t) ==
    LET k == FindIndexByJob(store, jobId)
    IN  IF k > 0
        THEN /\ Len(after) = Len(store)
             /\ after[k].id = store[k].id
             /\ after[k].createdAt = store[k].createdAt
             /\ after[k].updatedAt = t
        ELSE /\ Len(after) = Len(store) + 1
             /\ SubSeq(after, 1, Len(store)) = store
             /\ after[Len(after)].id \notin ArtifactIds

\* C2: a successful generation for a (jobId, kind) that has an Artifact
\* leaves the number of Artifacts unchanged and keeps the Artifact's id and
\* createdAt, with updatedAt set to the time of the generation; when there
\* was none, exactly one Artifact is created, with a fresh id.
C2_RegenerationKeepsIdentity ==
    [][ /\ (Answered /\ last'.kind = "tailor" /\ last'.status = 200)
            => RegeneratedOrCreated(resumes, resumes', last'.jobId, now')
        /\ (Answered /\ last'.kind = "cover" /\ last'.status = 200)
            => RegeneratedOrCreated(coverLetters, coverLetters', last'.jobId, now')
      ]_vars

AlreadyComplete == "This interview session is already complete"

\* C3: a respond request with a non-blank answer that arrives for a session
\* whose completedAt is set is answered at once with the "already complete"
\* error: it is not suspended at a model call, no model call is counted for
\* it, and the stored sessions are as they were.
C3_RespondAfterEndFails ==
    [][ /\ \A r \in inflight' :
              ~(/\ Arrives(r)
                /\ r.kind = "respond"
                /\ ~BlankAnswer(r.answer)
                /\ Completed(interviews, r.sid, r.jobId))
        /\ (/\ Arrives(last')
            /\ last'.kind = "respond"
            /\ ~BlankAnswer(last'.answer)
            /\ Completed(interviews, last'.sid, last'.jobId))
            => /\ last'.status = 400
               /\ last'.error = AlreadyComplete
               /\ last'.calls = 0
               /\ interviews' = interviews
      ]_vars

\* C3 witness: a respond on an ended session was answered "already complete"
C3_Witness ==
    /\ last.kind = "respond"
    /\ last.error = AlreadyComplete
    /\ Completed(interviews, last.sid, last.jobId)

\* C4: an end request that arrives for a session whose completedAt is set is
\* not processed: it is not suspended at a model call, and when it is
\* answered the session has the feedback and completedAt it had.
C4_EndOnCompletedRejected ==
    [][ /\ \A r \in inflight' :
              ~(/\ Arrives(r)
                /\ r.kind = "end"
                /\ Completed(interviews, r.sid, r.jobId))
        /\ \A r \in inflight \ inflight' :
              (r.kind = "end" /\ Completed(r.snap, r.sid, r.jobId))
              => LET k == FindSession(r.snap, r.sid, r.jobId)
                     j == FindSession(interviews', r.sid, r.jobId)
                 IN  /\ j > 0
                     /\ interviews'[j].feedback = r.snap[k].feedback
                     /\ interviews'[j].completedAt = r.snap[k].completedAt
      ]_vars

\* the assistant messages of a messages list
Interviewer(messages) ==
    {m \in 1..Len(messages) : messages[m].role = "assistant"}

\* the index in the array of the session with the id, 0 when it has none
IndexOfId(array, sid) ==
    LET hits == {k \in 1..Len(array) : array[k].id = sid}
    IN  IF hits = {} THEN 0 ELSE Min(hits)

CountMatches ==
    \A k \in 1..Len(interviews) :
        interviews[k].questionCount
            = Cardinality(Interviewer(interviews[k].messages))

\* the session a successful start stores has questionCount 1
StartStoresOne ==
    (Answered /\ last'.kind = "start" /\ last'.status = 201)
        => interviews'[Len(interviews')].questionCount = 1

\* this step answers a respond on the session sid with success
RespondedOk(sid) ==
    Answered /\ last'.kind = "respond" /\ last'.status = 200 /\ last'.sid = sid

\* C5 as stated: questionCount is the number of interviewer messages, 1
\* after start, one more after every successful respond and changed by
\* nothing else, so that it is N+1 after N successful responds.
C5_CountIsSuccessfulRespondsPlusOne ==
    /\ []CountMatches
    /\ [][ /\ StartStoresOne
           /\ \A k \in 1..Len(interviews) :
                 LET s == interviews[k]
                     j == IndexOfId(interviews', s.id)
                 IN  j > 0 =>
                       interviews'[j].questionCount
                         = IF RespondedOk(s.id) THEN s.questionCount + 1
                           ELSE s.questionCount
         ]_vars

\* C6: in every stored session the messages alternate interviewer,
\* candidate, interviewer, ... from an interviewer message to an interviewer
\* message, so that there are 2 * questionCount - 1 of them.
C6_MessagesAlternate ==
    \A k \in 1..Len(interviews) :
        LET s == interviews[k]
        IN  /\ Len(s.messages) = 2 * s.questionCount - 1
            /\ \A m \in 1..Len(s.messages) :
                  s.messages[m].role
                    = IF m % 2 = 1 THEN "assistant" ELSE "user"

\* C6 witness: start, respond, respond, end: 3 questions, 5 messages, ended
C6_Witness ==
    \E k \in 1..Len(interviews) :
        /\ interviews[k].questionCount = 3
        /\ Len(interviews[k].messages) = 5
        /\ interviews[k].completedAt # NoTime

\* C7 as stated: a stored session with completedAt set is, in every later
\* state of the store, still there with completedAt set and the same
\* messages, whatever requests are suspended.
C7_CompletedIsTerminal ==
    [][ \A k \in 1..Len(interviews) :
           interviews[k].completedAt # NoTime =>
             LET j == IndexOfId(interviews', interviews[k].id)
             IN  /\ j > 0
                 /\ interviews'[j].completedAt # NoTime
                 /\ interviews'[j].messages = interviews[k].messages
      ]_vars

\* the answer is missing, empty or made of white space only
MissingOrWhite(answer) ==
    \A a \in answer : \A i \in 1..Len(AnswerText[a]) : AnswerText[a][i] = " "

\* C8: a respond request whose answer is missing, empty or white space is
\* answered at once with the validation error: it is not suspended at a
\* model call, none is counted for it, and the stored sessions are unchanged.
C8_BlankAnswerRejected ==
    [][ /\ \A r \in inflight' :
              ~(Arrives(r) /\ r.kind = "respond" /\ MissingOrWhite(r.answer))
        /\ (Arrives(last') /\ last'.kind = "respond"
              /\ MissingOrWhite(last'.answer))
            => /\ last'.status = 400
               /\ last'.error = "Answer is required"
               /\ last'.calls = 0
               /\ interviews' = interviews
      ]_vars

\* C8 witness: a white-space answer to a session in progress was refused
C8_Witness ==
    /\ last.kind = "respond"
    /\ last.answer = {"blank"}
    /\ last.error = "Answer is required"
    /\ \E k \in 1..Len(interviews) :
          /\ interviews[k].id = last.sid
          /\ interviews[k].jobId = last.jobId
          /\ interviews[k].completedAt = NoTime

ParseErrors ==
    { "Failed to parse tailored resume", "Failed to parse cover letter",
      "Failed to parse interviewer response", "Failed to parse assessment" }

\* C9: when the text the model returned for a request does not parse into
\* an object, the response is the extraction failure with that text as raw,
\* after one parse attempt and one model call.
C9_UnparsableGivesRaw ==
    \A text \in last.text :
        (~Extract(text).ok \/ Extract(text).value.t # "object")
            => /\ last.status = 500
               /\ last.error \in ParseErrors
               /\ last.raw = {text}
               /\ last.parses = 1
               /\ last.calls = 1

\* every stored Artifact and session is whole
NothingHalfWritten ==
    /\ \A k \in 1..Len(resumes) :
          {"id", "jobId", "createdAt", "updatedAt"} \subseteq DOMAIN resumes[k]
    /\ \A k \in 1..Len(coverLetters) :
          {"id", "jobId", "createdAt", "updatedAt"} \subseteq DOMAIN coverLetters[k]
    /\ \A k \in 1..Len(interviews) :
          LET ms == interviews[k].messages
          IN  ms # <<>> /\ ms[Len(ms)].role = "assistant"

\* C10: a request answered with an error wrote nothing: neither the step in
\* which it arrived nor the step that answers it changes the stored resumes,
\* cover letters or sessions, and no stored session ends with an answer.
C10_ErrorLeavesStoresUnchanged ==
    /\ []NothingHalfWritten
    /\ [][ /\ accepted' # accepted
              => UNCHANGED <<resumes, coverLetters, interviews>>
           /\ (Answered /\ last'.status >= 400)
              => UNCHANGED <<resumes, coverLetters, interviews>>
         ]_vars

\* C10 witness: a respond failed on a reply that parsed to null
C10_Witness ==
    /\ last.kind = "respond"
    /\ last.status = 500
    /\ last.text = {<<"null">>}
    /\ interviews # <<>>

-----------------------------------------------------------------------------
(* Not found *)

\* the request q is answered in this step with the error, before any model
\* call and with nothing written
RefusedAtOnce(q, status, error) ==
    /\ last'.n = q.n
    /\ last'.status = status
    /\ last'.error = error
    /\ last'.calls = 0
    /\ \A r \in inflight' : r.n # q.n
    /\ UNCHANGED <<resumes, coverLetters, interviews, generated>>

\* the requests of which one may arrive in this step
Arriving == {q \in inflight' \cup {last'} : Arrives(q)}

NamesUnknownJob(q) ==
    q.kind \in {"tailor", "cover", "start"} /\ q.jobId # NoJob /\ q.jobId \notin jobs

NamesUnknownSession(q) ==
    q.kind \in {"respond", "end"} /\ IndexOfId(interviews, q.sid) = 0

\* C11 as stated: a generate or start request that names an unknown job,
\* and a respond or end request that names an unknown session, is answered
\* not-found in the step it arrives, with no model call and nothing written.
C11_UnknownIdNotFound ==
    [][ \A q \in Arriving :
           /\ NamesUnknownJob(q) => RefusedAtOnce(q, 404, "Job not found")
           /\ NamesUnknownSession(q)
                => RefusedAtOnce(q, 404, "Interview session not found")
      ]_vars

\* C11 amended: the same, for a respond request only when its answer is
\* not blank: a blank answer is refused with the answer-required error
\* before the session is looked up (still with no model call and no write).
C11_UnknownIdNotFoundUnlessBlank ==
    [][ \A q \in Arriving :
           /\ NamesUnknownJob(q) => RefusedAtOnce(q, 404, "Job not found")
           /\ NamesUnknownSession(q) =>
                IF q.kind = "respond" /\ MissingOrWhite(q.answer)
                THEN RefusedAtOnce(q, 400, "Answer is required")
                ELSE RefusedAtOnce(q, 404, "Interview session not found")
      ]_vars

\* C11 witness: a respond with an answer was refused for a session id that
\* no stored session has, while a session is stored
C11_Witness ==
    /\ last.kind = "respond"
    /\ ~MissingOrWhite(last.answer)
    /\ last.status = 404
    /\ last.error = "Interview session not found"
    /\ last.calls = 0
    /\ interviews # <<>>
    /\ IndexOfId(interviews, last.sid) = 0

\* C12: a respond (with an answer, on a session in progress) or an end whose
\* session exists but whose jobId names no job record is answered 'job not
\* found' in the step it arrives, with no model call and no change.
C12_JobGoneReported ==
    [][ \A q \in Arriving :
           LET k == FindSession(interviews, q.sid, q.jobId)
           IN  ( /\ q.kind \in {"respond", "end"}
                 /\ k > 0
                 /\ q.jobId \notin jobs
                 /\ q.kind = "respond"
                      => /\ ~MissingOrWhite(q.answer)
                         /\ interviews[k].completedAt = NoTime )
               => RefusedAtOnce(q, 404, "Job not found")
      ]_vars

\* C20: every stored session with completedAt set has a feedback object
\* whose overallScore is a number from 1 to 10.
C20_CompletedHasScore ==
    \A k \in 1..Len(interviews) :
        interviews[k].completedAt # NoTime =>
            /\ interviews[k].feedback.t = "object"
            /\ "overallScore" \in DOMAIN interviews[k].feedback.o
            /\ interviews[k].feedback.o.overallScore \in 1..10

-----------------------------------------------------------------------------
(* The extractor *)

\* s is the JSON value v with white space around it or none
Bare(s, v) ==
    \E m \in 1..Len(s) : s[m] = v /\ \A n \in 1..Len(s) : n # m => s[n] = Ws

\* text is v in a fenced block, with or without the tag json, with anything
\* that holds no fence before the block and anything after it
Fenced(text, v) ==
    \E i, j \in 1..Len(text) :
        /\ i < j
        /\ text[i] = Fence /\ text[j] = Fence
        /\ \A n \in 1..(j - 1) : n # i => text[n] # Fence
        /\ LET inner == SubSeq(text, i + 1, j - 1)
           IN  \/ Bare(inner, v)
               \/ inner # <<>> /\ inner[1] = JsonTag /\ Bare(Tail(inner), v)

\* text holds nothing that is JSON
Garbage(text) ==
    \A n \in 1..Len(text) : text[n] \in {Fence, JsonTag, Ws, Prose}

\* text is, as a whole, an object whose string holds a fenced block
JsonAroundFence(text) ==
    /\ Len(text) >= 4
    /\ text[1] = ObjOpen /\ text[Len(text)] = ObjClose
    /\ \A n \in 2..(Len(text) - 1) : text[n] \in StringTokens
    /\ Cardinality({n \in 1..Len(text) : text[n] = Fence}) >= 2

Failed(out, text) == DOMAIN out = {"error", "raw"} /\ out.raw = text

\* C13: a JSON value (that holds no fence) is extracted to the same object
\* whether it is given bare or in a fenced block, with or without the tag
\* and with or without prose around the block; a text that holds no JSON
\* fails with the text as raw, as does every failure; and when the text has
\* a fenced block only the inside of the first is parsed: a text that is
\* JSON as a whole but holds a fenced block fails.
C13_ExtractorFencedOrBare ==
    ret # <<>> =>
        /\ (Bare(arg, "oRes") \/ Fenced(arg, "oRes"))
             => ret[1] = [parsed |-> JsonOf["oRes"]]
        /\ Garbage(arg) => Failed(ret[1], arg)
        /\ "error" \in DOMAIN ret[1] => Failed(ret[1], arg)
        /\ JsonAroundFence(arg) => Failed(ret[1], arg)

\* C13 witness: prose, then a fenced block with the tag json, was extracted
C13_Witness ==
    /\ arg = <<Prose, Fence, JsonTag, "oRes", Fence>>
    /\ ret = <<[parsed |-> JsonOf["oRes"]]>>

-----------------------------------------------------------------------------
(* The slot map *)

\* the slot names of the resume template
SlotNames ==
    { <<"name">>, <<"email">>, <<"phone">>, <<"location">>, <<"title">>,
      <<"website">>, <<"company">>, <<"job_title">>, <<"date">>,
      <<"resume_content">>, <<"summary">> }
    \cup {<<p, i>> : p \in {"mgmt", "design", "tools"}, i \in 1..6}
    \cup {<<"exp", e, f>> : e \in 1..4,
                            f \in {"title", "company", "location", "dates"}}
    \cup {<<"exp", 1, "bullet", b>> : b \in 1..4}
    \cup {<<"exp", 2, "bullet", b>> : b \in 1..3}
    \cup {<<"exp", 3, "bullet", b>> : b \in 1..3}
    \cup {<<"exp", 4, "bullet", b>> : b \in 1..2}

\* the list the result has for the skills category, none when it is missing
GivenSkills(category) ==
    IF "skills" \in DOMAIN arg.parsed.o /\ category \in DOMAIN arg.parsed.o.skills
    THEN arg.parsed.o.skills[category]
    ELSE <<>>

GivenExperiences ==
    IF "experiences" \in DOMAIN arg.parsed.o THEN arg.parsed.o.experiences
    ELSE <<>>

CategoryOfPrefix(p) ==
    CASE p = "mgmt" -> "management" [] p = "design" -> "design"
      [] p = "tools" -> "tools"

C15_MapperDeterministic ==
    \A a, b \in 1..Len(ret) : ret[a].slots = ret[b].slots

\* C16: for each skills category, slot i of 1..6 holds the i-th skill of the
\* category's list, or the empty string when the list is shorter; the
\* skills past the sixth are in no slot.
C16_SkillSlotsInOrder ==
    \A n \in 1..Len(ret) :
        \A p \in {"mgmt", "design", "tools"}, i \in 1..6 :
            LET given == GivenSkills(CategoryOfPrefix(p))
            IN  ret[n].slots[<<p, i>>] = IF i <= Len(given) THEN given[i] ELSE ""

\* C16 witness: a list of 8 management skills was mapped
C16_Witness ==
    /\ ret # <<>>
    /\ Len(GivenSkills("management")) = 8
    /\ ret[1].slots[<<"mgmt", 6>>] = "s6"
    /\ \A k \in SlotNames : ret[1].slots[k] \notin {"s7", "s8"}

\* the bullet slots the template has for the experience at each position
BulletBudget == [e \in 1..4 |-> CASE e = 1 -> 4 [] e = 4 -> 2 [] OTHER -> 3]

\* obj.name, or the empty string when obj has none
GivenField(obj, name) == IF name \in DOMAIN obj THEN obj[name] ELSE ""

GivenBullets(exp) == IF "bullets" \in DOMAIN exp THEN exp.bullets ELSE <<>>

\* the result has five experiences, no two values of them alike
FiveDistinct ==
    /\ Len(GivenExperiences) = 5
    /\ \A e \in 1..5 : GivenExperiences[e].title = <<"T1", "T2", "T3", "T4", "T5">>[e]

\* the values of the result that have no slot: the bullets past the budget
\* of their experience, and all of the experiences past the fourth
DroppedValues ==
    UNION { {GivenBullets(GivenExperiences[e])[b] :
                b \in {n \in 1..Len(GivenBullets(GivenExperiences[e])) :
                          e > 4 \/ n > BulletBudget[e]}}
            \cup (IF e > 4
                  THEN {GivenField(GivenExperiences[e], f) :
                          f \in {"title", "company", "location", "dates"}}
                  ELSE {})
            : e \in 1..Len(GivenExperiences) }

\* C22: the slot map has experience slots for positions 1..4 only, with 4,
\* 3, 3 and 2 bullet slots; each holds the title, company, location, dates
\* or b-th bullet of the experience at the position, or the empty string
\* when the result has none; bullets past the budget and experiences past
\* the fourth are in no slot.
C22_ExperienceBudgets ==
    \A n \in 1..Len(ret) :
        LET slots == ret[n].slots
            exp(e) == IF e <= Len(GivenExperiences)
                      THEN GivenExperiences[e] ELSE <<>>
        IN  /\ \A k \in DOMAIN slots :
                  k[1] = "exp" =>
                    /\ k[2] \in 1..4
                    /\ IF Len(k) = 3
                       THEN slots[k] = GivenField(exp(k[2]), k[3])
                       ELSE /\ k[4] \in 1..BulletBudget[k[2]]
                            /\ slots[k] =
                                 IF k[4] <= Len(GivenBullets(exp(k[2])))
                                 THEN GivenBullets(exp(k[2]))[k[4]] ELSE ""
            /\ \A e \in 1..4 :
                  /\ \A f \in {"title", "company", "location", "dates"} :
                        <<"exp", e, f>> \in DOMAIN slots
                  /\ \A b \in 1..BulletBudget[e] :
                        <<"exp", e, "bullet", b>> \in DOMAIN slots
            /\ FiveDistinct => \A k \in DOMAIN slots : slots[k] \notin DroppedValues

\* C22 witness: five experiences of five bullets were mapped: the fourth
\* has its first two bullets in its slots
C22_Witness ==
    /\ ret # <<>>
    /\ FiveDistinct
    /\ ret[1].slots[<<"exp", 4, "title">>] = "T4"
    /\ ret[1].slots[<<"exp", 4, "bullet", 2>>] = "b42"
    /\ ret[1].slots[<<"exp", 1, "bullet", 4>>] = "b14"

-----------------------------------------------------------------------------
(* The repair pass *)

Separators == {" ", "emdash", "bullet", "-", "|"}

\* the text is not empty and every character of it is a separator
OnlySeparators(text) ==
    text # <<>> /\ \A i \in 1..Len(text) : text[i] \in Separators

\* C17 as stated: the pass removes exactly the paragraphs whose text is not
\* empty and made of separator characters (dashes, bullets, pipes, white
\* space) only, and leaves the others as they were, in their order.
C17_RepairRemovesSeparatorParagraphs ==
    ret # <<>> =>
        ret[1] = SelectSeq(arg, LAMBDA p : ~OnlySeparators(p))

\* C17 amended: the pass removes exactly the paragraphs whose text is made
\* of separator characters only and holds at least one that is not white
\* space; a paragraph of white space only is kept, like every other one.
C17_RepairRemovesDashParagraphs ==
    ret # <<>> =>
        ret[1] = SelectSeq(arg, LAMBDA p :
                    ~(OnlySeparators(p) /\ \E i \in 1..Len(p) : p[i] # " "))

\* C17 witness: of "a", " -- " and "S -- P" the second was removed
C17_Witness ==
    /\ arg = << <<"a">>, <<" ", "emdash", " ">>,
                <<"S", " ", "emdash", " ", "P">> >>
    /\ ret = << << <<"a">>, <<"S", " ", "emdash", " ", "P">> >> >>

-----------------------------------------------------------------------------
(* Documents and templates *)

\* the store a generation of the kind writes, now and after the step
StoreOf(kind) == IF kind = "tailor" THEN resumes ELSE coverLetters

StoreAfter(kind) == IF kind = "tailor" THEN resumes' ELSE coverLetters'

\* C18: a generation whose model output parses to a result is answered
\* with success and stores the Artifact whether or not a document was
\* rendered; when none was (no template of the kind, or rendering failed)
\* the stored Artifact has no document reference.
C18_RenderFailureNotFatal ==
    [][ (Answered /\ last'.kind \in {"tailor", "cover"}
           /\ \E text \in last'.text :
                 Extract(text).ok /\ Extract(text).value.t # "null")
        => /\ last'.status = 200
           /\ \E k \in 1..Len(StoreAfter(last'.kind)) :
                 StoreAfter(last'.kind)[k].updatedAt = now'
           /\ generated' = generated =>
                \A k \in 1..Len(StoreAfter(last'.kind)) :
                    StoreAfter(last'.kind)[k].updatedAt = now'
                      => "docxPath" \notin DOMAIN StoreAfter(last'.kind)[k]
      ]_vars

OnePerKind ==
    \A a, b \in 1..Len(templates) :
        templates[a].type = templates[b].type => a = b

\* C19: the registry holds at most one template per kind at all times; an
\* upload of a kind leaves its template as the only one of the kind and
\* leaves the template of the other kind as it was; nothing else adds one.
C19_OneTemplatePerKind ==
    /\ []OnePerKind
    /\ [][ IF uploads' = uploads + 1
           THEN \E n \in 1..Len(templates') :
                   /\ templates'[n].id = uploads'
                   /\ \A k \in 1..Len(templates') :
                         templates'[k].type = templates'[n].type => k = n
                   /\ \A k \in 1..Len(templates) :
                         templates[k].type # templates'[n].type
                           => \E m \in 1..Len(templates') :
                                 templates'[m] = templates[k]
           ELSE \A m \in 1..Len(templates') :
                   \E k \in 1..Len(templates) : templates[k] = templates'[m]
         ]_vars

\* C19 witness: both kinds are registered after a template was replaced
C19_Witness ==
    /\ Len(templates) = 2
    /\ uploads >= 3
    /\ \E k \in 1..Len(templates) : templates[k].id = 1

-----------------------------------------------------------------------------
(* Artifacts are kept *)

\* C21: no request of any route (generation, interview, template upload or
\* delete, job create, update or delete) makes the number of resume
\* Artifacts or the number of cover-letter Artifacts smaller.
C21_ArtifactsNeverDecrease ==
    [][ /\ Len(resumes') >= Len(resumes)
        /\ Len(coverLetters') >= Len(coverLetters)
      ]_vars

\* C21 witness: the job j1 was deleted and its resume and its cover letter
\* are still stored
C21_Witness ==
    /\ "j1" \notin jobs
    /\ \E k \in 1..Len(resumes) : resumes[k].jobId = "j1"
    /\ \E k \in 1..Len(coverLetters) : coverLetters[k].jobId = "j1"

-----------------------------------------------------------------------------
(* Documents of stored Artifacts *)

\* the document references of the Artifacts of a store
DocsOf(store) ==
    {store[k].docxPath : k \in {n \in 1..Len(store) : "docxPath" \in DOMAIN store[n]}}

\* C23: a store is written only in the step that answers a generation with
\* success, after its text was extracted and the document rendered in that
\* step; and every document reference of a stored Artifact names a file
\* that was written whole before the Artifact was saved.
C23_ReferenceOnlyToWrittenFile ==
    /\ [](DocsOf(resumes) \cup DocsOf(coverLetters) \subseteq generated)
    /\ [][ (resumes' # resumes \/ coverLetters' # coverLetters)
             => /\ Answered
                /\ last'.status = 200
                /\ \A text \in last'.text : Extract(text).ok
                /\ DocsOf(StoreAfter(last'.kind)) \subseteq generated'
         ]_vars

-----------------------------------------------------------------------------
(* Every request is answered *)

\* the request with arrival number n is suspended at its model call
Waiting(n) == \E r \in inflight : r.n = n

\* C24: every accepted request is answered in the step it arrives or is
\* suspended at its model call; a suspended request is answered in the end,
\* whatever the model returns; a request leaves its suspension only by
\* being answered, and a response is sent only to the request that arrives
\* or to one that was suspended, so that each gets exactly one.
C24_EveryRequestAnswered ==
    /\ \A n \in 1..MaxLiveReqs : Waiting(n) ~> (last.n = n /\ ~Waiting(n))
    /\ [][ /\ accepted' # accepted
              => /\ accepted' = accepted + 1
                 /\ (last'.n = accepted') # (\E r \in inflight' : r.n = accepted')
           /\ \A r \in inflight \ inflight' : last'.n = r.n /\ last.n # r.n
           /\ Answered
              => \/ accepted' = accepted + 1 /\ last'.n = accepted'
                 \/ \E r \in inflight \ inflight' : r.n = last'.n
           /\ \A r \in inflight' \ inflight : r.n = accepted'
         ]_vars

\* C24 witness: a request that arrived after a suspended one was answered
\* with success while the first is still suspended
C24_Witness ==
    /\ last.status \in {200, 201}
    /\ \E r \in inflight : r.n < last.n

\* C25: a successful generation for a job that has an Artifact leaves that
\* Artifact with the file written in this step as its document reference,
\* or with none when no file was written in this step.
C25_RegenerationReplacesDocument ==
    [][ (Answered /\ last'.kind \in {"tailor", "cover"} /\ last'.status = 200)
        => LET k == FindIndexByJob(StoreOf(last'.kind), last'.jobId)
           IN  k > 0 =>
                 IF generated' # generated
                 THEN /\ "docxPath" \in DOMAIN StoreAfter(last'.kind)[k]
                      /\ StoreAfter(last'.kind)[k].docxPath
                            \in generated' \ generated
                 ELSE "docxPath" \notin DOMAIN StoreAfter(last'.kind)[k]
      ]_vars

-----------------------------------------------------------------------------
(* Concurrent requests *)

\* C26: with generation requests suspended at their model calls in any
\* number and order, two first generations for the same job among them,
\* each store holds at most one Artifact per jobId, and a generation that
\* succeeds leaves every Artifact of another job in its place as it was.
C26_ConcurrentGenerationsKeepOnePerJob ==
    /\ [](OnePerJob(resumes) /\ OnePerJob(coverLetters))
    /\ [][ (Answered /\ last'.kind \in {"tailor", "cover"} /\ last'.status = 200)
            => /\ Len(StoreAfter(last'.kind)) >= Len(StoreOf(last'.kind))
               /\ \A k \in 1..Len(StoreOf(last'.kind)) :
                     StoreOf(last'.kind)[k].jobId # last'.jobId
                       => StoreAfter(last'.kind)[k] = StoreOf(last'.kind)[k]
         ]_vars

\* C27: when a respond or an end is answered, every stored session other
\* than the one it names (one stored by a start while the request was
\* suspended included) is still stored, as it was.
C27_OtherSessionsUntouched ==
    [][ \A r \in inflight \ inflight' :
           r.kind \in {"respond", "end"}
             => \A k \in 1..Len(interviews) :
                   interviews[k].id # r.sid
                     => \E j \in 1..Len(interviews') :
                           interviews'[j] = interviews[k]
      ]_vars

\* C28: a respond answered with success has put its answer and then the
\* interviewer's reply at the end of the stored session's messages; and the
\* answers and replies a stored session holds stay in it, at their places,
\* in every later state of the store.
C28_AnswersAreKept ==
    [][ /\ (Answered /\ last'.kind = "respond" /\ last'.status = 200)
            => LET j == IndexOfId(interviews', last'.sid)
                   ms == interviews'[j].messages
               IN  /\ j > 0
                   /\ Len(ms) >= 3
                   /\ ms[Len(ms) - 1] = [role |-> "user",
                                         content |-> CHOOSE a \in last'.answer : TRUE]
                   /\ ms[Len(ms)].role = "assistant"
        /\ \A k \in 1..Len(interviews) :
              Len(interviews[k].messages) >= 3
                => LET j == IndexOfId(interviews', interviews[k].id)
                   IN  /\ j > 0
                       /\ Len(interviews'[j].messages) >= Len(interviews[k].messages)
                       /\ \A m \in 2..Len(interviews[k].messages) :
                             interviews'[j].messages[m] = interviews[k].messages[m]
      ]_vars

-----------------------------------------------------------------------------
(* Fields of the result, order of the checks *)

\* C29: the Artifact a successful generation for a job stores (in the place
\* of the job's Artifact, or at the end when it has none) has the job's id
\* as jobId, the id of the job's Artifact when it has one, and createdAt
\* and updatedAt as the server sets them, whatever the result holds.
C29_ServerFieldsWin ==
    [][ (Answered /\ last'.kind \in {"tailor", "cover"} /\ last'.status = 200)
        => LET store == StoreOf(last'.kind)
               after == StoreAfter(last'.kind)
               k == FindIndexByJob(store, last'.jobId)
               a == after[IF k > 0 THEN k ELSE Len(after)]
           IN  /\ after # <<>>
               /\ a.jobId = last'.jobId
               /\ a.updatedAt = now'
               /\ IF k > 0
                  THEN a.id = store[k].id /\ a.createdAt = store[k].createdAt
                  ELSE a.createdAt = now'
      ]_vars

\* a session with the id is stored under the jobId
StoredUnder(sid, jobId) ==
    \E k \in 1..Len(interviews) :
        interviews[k].id = sid /\ interviews[k].jobId = jobId

\* C30: a respond request is refused in the step it arrives with the first
\* of these that applies, and with no other: answer required, when the
\* answer is blank (whatever the session); session not found, when no
\* session has the id under the jobId (one under another jobId included);
\* already complete, when the session is ended.  When none applies it is
\* suspended at the model call and no error is sent.
C30_RespondErrorOrder ==
    [][ \A q \in Arriving :
           q.kind = "respond" =>
             IF MissingOrWhite(q.answer)
             THEN RefusedAtOnce(q, 400, "Answer is required")
             ELSE IF ~StoredUnder(q.sid, q.jobId)
             THEN RefusedAtOnce(q, 404, "Interview session not found")
             ELSE IF \E k \in 1..Len(interviews) :
                        /\ interviews[k].id = q.sid
                        /\ interviews[k].jobId = q.jobId
                        /\ interviews[k].completedAt # NoTime
             THEN RefusedAtOnce(q, 400, AlreadyComplete)
             ELSE q \in inflight' /\ last' = last
      ]_vars

\* C30 witness: a blank answer to an ended session was refused with the
\* answer-required error
C30_Witness ==
    /\ last.kind = "respond"
    /\ MissingOrWhite(last.answer)
    /\ last.status = 400
    /\ last.error = "Answer is required"
    /\ \E k \in 1..Len(interviews) :
          /\ interviews[k].id = last.sid
          /\ interviews[k].jobId = last.jobId
          /\ interviews[k].completedAt # NoTime

====
